---- MODULE Spec2Model ----
(***************************************************************************)
(* A model of temper-go: the cuckoo-filter / rollout decode-and-query core *)
(* (from, lookup, lookupRollout, lookupFilter, altIndex) and the client    *)
(* that fetches a filter, polls for new ones and answers Check.            *)
(*                                                                         *)
(* 64-bit words are kept as four 16-bit limbs <<l0, l1, l2, l3>>, least   *)
(* significant first, so that every intermediate product stays below 2^31  *)
(* and the arithmetic is the arithmetic of uint64 (mod 2^64).              *)
(***************************************************************************)
EXTENDS Integers, Sequences, FiniteSets

VARIABLES
    fr,        \* core: the filterResponse last handed to from
    dec,       \* core: what from returned for it: [err, filter]
    obs,       \* core: the last query made against dec.filter
    c,         \* client: the client's filter reference (c.filter), or no client yet
    poller,    \* client: whether the pollFilter goroutine runs
    decoded,   \* client: whether some fetch has decoded a filter successfully
    chk,       \* client: the Check call in progress or last finished
    panicked,  \* client: the process died of a runtime panic
    fetch,     \* client: how the last call of fetchFilter ended, and who made it
    refactor,  \* refactor: the RefactorArgs' result pointer (r.result)
    caller,    \* refactor: the thread that calls run, and what run returned to it
    gor,       \* refactor: the goroutines run has started, one per call
    report     \* refactor: what the last call of results read

coreVars   == <<fr, dec, obs>>
clientVars == <<c, poller, decoded, chk, panicked, fetch>>
refVars    == <<refactor, caller, gor, report>>
vars       == <<fr, dec, obs, c, poller, decoded, chk, panicked, fetch,
                refactor, caller, gor, report>>

---------------------------------------------------------------------------
(* Bounds of the model.                                                    *)

\* Keys are all byte sequences over Alphabet of at most this length.
MaxKeyLen == 3
\* run is called at most this many times on one RefactorArgs.
MaxRuns == 2
\* Filter byte slices of every length up to this one are decoded.
MaxFilterLen == 33
\* Rollout byte slices carry up to this many bytes after their last whole entry.
MaxTrailing == 2

---------------------------------------------------------------------------
(* Machine words.                                                          *)

Limb == 2 ^ 16
Byte == 2 ^ 8

\* F applied to the value of v, computed once.
With(v, F(_)) == CHOOSE r \in {F(x) : x \in {v}} : TRUE

\* Bit i of a word below 2^31.
Bit(a, i) == (a \div (2 ^ i)) % 2

\* The bitwise operations on four-bit digits, as tables computed once from
\* the bits: 1 * op(bit 0) + 2 * op(bit 1) + 4 * op(bit 2) + 8 * op(bit 3).
digitTable(op(_, _)) ==
    [x \in 0..15 |-> [y \in 0..15 |->
        op(Bit(x, 0), Bit(y, 0)) + 2 * op(Bit(x, 1), Bit(y, 1))
        + 4 * op(Bit(x, 2), Bit(y, 2)) + 8 * op(Bit(x, 3), Bit(y, 3))]]

andTable == digitTable(LAMBDA x, y : x * y)
orTable  == digitTable(LAMBDA x, y : IF x + y > 0 THEN 1 ELSE 0)
xorTable == digitTable(LAMBDA x, y : (x + y) % 2)

\* Hexadecimal digit j of a word below 2^31.
Digit(a, j) == (a \div (16 ^ j)) % 16

\* A bitwise operation on two words below 2^31, digit by digit.
Bitwise(t, a, b) ==
    t[Digit(a, 0)][Digit(b, 0)]
    + 16 * t[Digit(a, 1)][Digit(b, 1)]
    + 256 * t[Digit(a, 2)][Digit(b, 2)]
    + 4096 * t[Digit(a, 3)][Digit(b, 3)]
    + 65536 * t[Digit(a, 4)][Digit(b, 4)]
    + 1048576 * t[Digit(a, 5)][Digit(b, 5)]
    + 16777216 * t[Digit(a, 6)][Digit(b, 6)]
    + 268435456 * t[Digit(a, 7)][Digit(b, 7)]

\* a & b, a | b and a ^ b on words below 2^31.
BitAnd(a, b) == With(<<a, b>>, LAMBDA p : Bitwise(andTable, p[1], p[2]))
BitOr(a, b)  == With(<<a, b>>, LAMBDA p : Bitwise(orTable, p[1], p[2]))
BitXor(a, b) == With(<<a, b>>, LAMBDA p : Bitwise(xorTable, p[1], p[2]))

\* n >> k for a word n < 2^31 (a shift by 31 or more leaves nothing of it).
Shr(n, k) == IF k >= 31 THEN 0 ELSE n \div (2 ^ k)

\* w * m mod 2^64 for a small multiplier m (m < 2^15).
MulSmall64(w, m) ==
    LET p0 == w[1] * m
        p1 == w[2] * m + p0 \div Limb
        p2 == w[3] * m + p1 \div Limb
        p3 == w[4] * m + p2 \div Limb
    IN  <<p0 % Limb, p1 % Limb, p2 % Limb, p3 % Limb>>

\* w << 40 mod 2^64: two whole limbs and eight bits.
Shl40(w) ==
    <<0, 0, (w[1] % Byte) * Byte, ((w[2] % Byte) * Byte) + (w[1] \div Byte)>>

\* a + b mod 2^64.
Add64(a, b) ==
    LET s0 == a[1] + b[1]
        s1 == a[2] + b[2] + s0 \div Limb
        s2 == a[3] + b[3] + s1 \div Limb
        s3 == a[4] + b[4] + s2 \div Limb
    IN  <<s0 % Limb, s1 % Limb, s2 % Limb, s3 % Limb>>

\* w mod m for a small modulus m (m < 2^15).
Mod64(w, m) ==
    LET r3 == w[4] % m
        r2 == (r3 * Limb + w[3]) % m
        r1 == (r2 * Limb + w[2]) % m
    IN  (r1 * Limb + w[1]) % m

---------------------------------------------------------------------------
(* hash: 64-bit FNV-1a (hash/fnv New64a, Write, Sum64).                    *)

\* 0xcbf29ce484222325
offset64 == <<8997, 33826, 40164, 52210>>

\* One round: xor the byte into the low eight bits, then multiply by the
\* prime 0x100000001b3 = 2^40 + 435.
fnvRound(h, b) ==
    With(<<BitXor(h[1], b), h[2], h[3], h[4]>>,
         LAMBDA x : With(MulSmall64(x, 435), LAMBDA m : Add64(m, Shl40(x))))

\* Write: one round per byte, in order.  (Each round's value is bound as a
\* set element, so that it is computed once.)
RECURSIVE fnvWrite(_, _)
fnvWrite(h, data) ==
    IF data = <<>> THEN h
    ELSE CHOOSE r \in {fnvWrite(x, Tail(data)) : x \in {fnvRound(h, Head(data))}} : TRUE

fnv1a(data) == fnvWrite(offset64, data)

\* The delimiter ":" of a fully qualified key.
Colon == 58

\* The bytes of ":", "0" and "k".
Alphabet == {Colon, 48, 107}

\* The keys of the model: every byte sequence over Alphabet up to MaxKeyLen.
Keys == UNION {[1..n -> Alphabet] : n \in 0..MaxKeyLen}

\* The hashes of the keys, computed once.
hashOfKey == [k \in Keys |-> fnv1a(k)]

\* has computes a 64 bit fnv-1a hash of the given data.
hash(data) == IF data \in Keys THEN hashOfKey[data] ELSE fnv1a(data)

---------------------------------------------------------------------------
(* Constants of the filter.                                                *)

maxFingerprint == (2 ^ 16) - 1
bucketSize     == 4
bytesPerBucket == (bucketSize * 16) \div 8
---------------------------------------------------------------------------
(* Byte slices, filterResponse and filter.                                 *)

\* A []byte: nil, or present with its bytes (a present slice may be empty).
NilBytes    == [nil |-> TRUE,  b |-> <<>>]
Bytes(seq)  == [nil |-> FALSE, b |-> seq]

\* type filter struct; the zero value &filter{} has a nil bucket slice and a
\* nil rollout map.
ZeroFilter ==
    [cap |-> 0, count |-> 0, bucketsNil |-> TRUE, buckets |-> <<>>,
     bucketIndexMask |-> 0, rolloutsNil |-> TRUE, rollouts |-> {}]

\* bytes.Index(data, sep) for a one-byte separator: the position (from 0)
\* of its first occurrence, or -1.
Index(data, sep) ==
    IF \E i \in 1..Len(data) : data[i] = sep
    THEN (CHOOSE i \in 1..Len(data) :
              data[i] = sep /\ \A j \in 1..(i - 1) : data[j] # sep) - 1
    ELSE -1

\* A variant of nextPowerOf2 without its leading n--: a power of two is
\* taken to the next one.
nextPowerOf2_noDecrement(n) ==
    With(n,
         LAMBDA n0 : With(BitOr(n0, Shr(n0, 1)),
         LAMBDA n1 : With(BitOr(n1, Shr(n1, 2)),
         LAMBDA n2 : With(BitOr(n2, Shr(n2, 4)),
         LAMBDA n3 : With(BitOr(n3, Shr(n3, 8)),
         LAMBDA n4 : With(BitOr(n4, Shr(n4, 16)),
         LAMBDA n5 : With(BitOr(n5, Shr(n5, 32)),
         LAMBDA n6 : n6 + 1)))))))

\* nextPowerOf2 on a uint64 below 2^31.  n-- on 0 wraps to 2^64 - 1, every
\* or leaves that unchanged, and n++ wraps it back to 0.
nextPowerOf2(n) ==
    IF n = 0 THEN 0
    ELSE With(n - 1,
         LAMBDA n0 : With(BitOr(n0, Shr(n0, 1)),
         LAMBDA n1 : With(BitOr(n1, Shr(n1, 2)),
         LAMBDA n2 : With(BitOr(n2, Shr(n2, 4)),
         LAMBDA n3 : With(BitOr(n3, Shr(n3, 8)),
         LAMBDA n4 : With(BitOr(n4, Shr(n4, 16)),
         LAMBDA n5 : With(BitOr(n5, Shr(n5, 32)),
         LAMBDA n6 : n6 + 1)))))))

\* bucket.contains: the fingerprint is one of the bucket's entries.
contains(b, fingerprint) == \E j \in 1..Len(b) : b[j] = fingerprint

\* binary.Read(r, binary.LittleEndian, &uint16) at byte offset off (from 0).
ReadUint16(bs, off) == bs[off + 1] + Byte * bs[off + 2]

\* binary.Read(r, binary.LittleEndian, &uint64) at byte offset off (from 0).
ReadUint64(bs, off) ==
    [i \in 1..4 |-> bs[off + 2 * i - 1] + Byte * bs[off + 2 * i]]

\* The bucket table read from the filter bytes: size buckets of bucketSize
\* little-endian uint16 each, in order.
readBuckets(bs, size) ==
    [i \in 1..size |->
        [j \in 1..bucketSize |->
            ReadUint16(bs, (i - 1) * bytesPerBucket + (j - 1) * 2)]]

\* count: the number of nonzero entries read.
countNonZero(buckets) ==
    Cardinality({p \in (1..Len(buckets)) \X (1..bucketSize) :
                    buckets[p[1]][p[2]] # 0})

\* The rollout entries: r.Len()/8 whole uint64 values; what follows the
\* last whole entry is not read.
readEntries(bs) ==
    [i \in 1..(Len(bs) \div 8) |-> ReadUint64(bs, (i - 1) * 8)]

\* high := (e >> 8) << 8
highOf(e) == <<e[1] - (e[1] % Byte), e[2], e[3], e[4]>>
\* low := uint8(e & ((1 << 8) - 1))
lowOf(e)  == e[1] % Byte

\* rollouts[high] = low for every entry in order: a later entry with the
\* same high overwrites an earlier one.  The map is kept as its set of
\* <<high, low>> pairs, one per key.
rolloutMap(entries) ==
    {<<highOf(entries[i]), lowOf(entries[i])>> : i \in
        {i \in 1..Len(entries) :
            \A j \in (i + 1)..Len(entries) : highOf(entries[j]) # highOf(entries[i])}}

\* m[k] on a map[uint64]uint8: the zero value when k is absent or m is nil.
mapGet(m, k) ==
    IF \E p \in m : p[1] = k THEN (CHOOSE p \in m : p[1] = k)[2] ELSE 0

\* The bucket-table half of from (fr.Filter != nil): the first failing
\* check decides the error.
fromFilterErr(fb) ==
    IF Len(fb) % bucketSize # 0 THEN "MalformedLength"
    ELSE IF Len(fb) \div bytesPerBucket < 1 THEN "TooSmall"
    ELSE IF nextPowerOf2(Len(fb) \div bytesPerBucket) # Len(fb) \div bytesPerBucket
         THEN "NotPowerOfTwo"
    ELSE IF Len(fb) < (Len(fb) \div bytesPerBucket) * bytesPerBucket
         THEN "ReadError"
    ELSE "ok"

\* The rollout half of from (fr.Rollout != nil): binary.Read fails only when
\* an entry of the r.Len()/8 allocated ones cannot be read whole.
fromRolloutErr(rb) ==
    IF Len(rb) < (Len(rb) \div 8) * 8 THEN "ReadError" ELSE "ok"

\* A variant of filterPresent that takes an empty slice for an absent one
\* (len(fr.Filter) != 0).
filterPresent_byLength(r) == Len(r.Filter.b) # 0

\* fr.Filter != nil
filterPresent(r) == ~r.Filter.nil

\* A variant of indexMask that is one too large.
indexMask_length(buckets) == Len(buckets)

\* bucketIndexMask: uint(len(buckets) - 1)
indexMask(buckets) == Len(buckets) - 1

\* from initializes a filter from an encoded byte slice.
from(r) ==
    LET ferr == IF filterPresent(r) THEN fromFilterErr(r.Filter.b) ELSE "ok"
        rerr == IF r.Rollout.nil THEN "ok" ELSE fromRolloutErr(r.Rollout.b)
        size == Len(r.Filter.b) \div bytesPerBucket
        buckets == readBuckets(r.Filter.b, size)
        withBuckets ==
            IF ~filterPresent(r) THEN ZeroFilter
            ELSE [ZeroFilter EXCEPT !.cap = size,
                                    !.bucketsNil = FALSE,
                                    !.buckets = buckets,
                                    !.count = countNonZero(buckets),
                                    !.bucketIndexMask = indexMask(buckets)]
        withRollouts ==
            IF r.Rollout.nil THEN withBuckets
            ELSE [withBuckets EXCEPT !.rolloutsNil = FALSE,
                                     !.rollouts = rolloutMap(readEntries(r.Rollout.b))]
    IN  IF ferr # "ok" THEN [err |-> ferr, filter |-> ZeroFilter, nil |-> TRUE]
        ELSE IF rerr # "ok" THEN [err |-> rerr, filter |-> ZeroFilter, nil |-> TRUE]
        ELSE [err |-> "ok", filter |-> withRollouts, nil |-> FALSE]

---------------------------------------------------------------------------
(* Queries.                                                                *)

\* fingerprintAndIndex returns the fingerprint of the given data, and the
\* primary index.  hash >> 48 is the top limb; with at most 2^16 buckets
\* uint(hash) & mask reads the low limb only.
fingerprintAndIndex(f, data) ==
    LET h == hash(data)
        shifted == h[4]
    IN  [fingerprint |-> (shifted % (maxFingerprint - 1)) + 1,
         index       |-> BitAnd(h[1], f.bucketIndexMask)]

\* A variant of altIndex that adds the hash to the index instead of
\* xor-ing it in.
altIndex_add(f, fingerprint, index) ==
    LET data == <<fingerprint % Byte, fingerprint \div Byte>>
        h == hash(data)
    IN  BitAnd((index + h[1]) % Limb, f.bucketIndexMask)

\* altIndex returns the secondary index: the fingerprint is written as two
\* little-endian bytes, hashed, and xor-ed into the index under the mask.
altIndex(f, fingerprint, index) ==
    LET data == <<fingerprint % Byte, fingerprint \div Byte>>
        h == hash(data)
    IN  BitAnd(BitXor(index, h[1]), f.bucketIndexMask)

\* data[:index] when the first ":" is at a position above 0, else data.
featureKey(data) ==
    IF Index(data, Colon) > 0 THEN SubSeq(data, 1, Index(data, Colon)) ELSE data

\* A variant of lookupRollout with its comparison turned around.
lookupRollout_inverted(f, data) ==
    LET hfull   == hash(data)
        hfeat   == hash(featureKey(data))
        high    == highOf(hfeat)
        rollout == mapGet(f.rollouts, high)
    IN  IF rollout = 100 THEN TRUE
        ELSE Mod64(hfull, 100) >= rollout

\* A variant of lookupRollout that never cuts the key at the delimiter.
lookupRollout_wholeKey(f, data) ==
    LET hfull   == hash(data)
        high    == highOf(hfull)
        rollout == mapGet(f.rollouts, high)
    IN  IF rollout = 100 THEN TRUE
        ELSE Mod64(hfull, 100) <= rollout

\* lookupRollout looks up the rollout entry in the filter's rollout table.
lookupRollout(f, data) ==
    LET hfull   == hash(data)
        hfeat   == hash(featureKey(data))
        high    == highOf(hfeat)
        rollout == mapGet(f.rollouts, high)
    IN  IF rollout = 100 THEN TRUE
        ELSE Mod64(hfull, 100) <= rollout

\* f.buckets[index] is a valid element (Go panics on an index out of range).
inRange(f, index) == index + 1 \in 1..Len(f.buckets)

\* A variant of lookupFilter that probes the primary bucket only.
lookupFilter_primaryOnly(f, data) ==
    IF f.bucketsNil THEN FALSE
    ELSE LET fi == fingerprintAndIndex(f, data)
         IN  contains(f.buckets[fi.index + 1], fi.fingerprint)

\* lookupFilter checks if the data is in the filter.
lookupFilter(f, data) ==
    IF f.bucketsNil THEN FALSE
    ELSE LET fi == fingerprintAndIndex(f, data)
         IN  IF contains(f.buckets[fi.index + 1], fi.fingerprint) THEN TRUE
             ELSE contains(f.buckets[altIndex(f, fi.fingerprint, fi.index) + 1],
                           fi.fingerprint)

\* A variant of lookup that gives up on a filter without a bucket table
\* before it consults the rollout table.
lookup_bucketsFirst(f, data) ==
    IF f.bucketsNil THEN FALSE
    ELSE IF lookupRollout(f, data) THEN TRUE
    ELSE lookupFilter(f, data)

\* lookup returns true if data is in the filter or is enabled by the rollout
\* data.
lookup(f, data) ==
    IF lookupRollout(f, data) THEN TRUE
    ELSE lookupFilter(f, data)

\* lookupFilter indexes f.buckets out of range (a runtime panic).
lookupFilterPanics(f, data) ==
    /\ ~f.bucketsNil
    /\ LET fi == fingerprintAndIndex(f, data)
       IN  \/ ~inRange(f, fi.index)
           \/ /\ ~contains(f.buckets[fi.index + 1], fi.fingerprint)
              /\ ~inRange(f, altIndex(f, fi.fingerprint, fi.index))

\* lookup panics: the rollout table does not enable the data and
\* lookupFilter indexes out of range.
lookupPanics(f, data) ==
    /\ ~lookupRollout(f, data)
    /\ lookupFilterPanics(f, data)

---------------------------------------------------------------------------
(* Inputs: keys, and snapshots as the backend encodes them.                *)

\* n zero bytes.
Zeros(n) == [i \in 1..n |-> 0]

\* A 64-bit word as eight little-endian bytes.
WordBytes(w) ==
    [i \in 1..8 |-> IF i % 2 = 1 THEN w[(i + 1) \div 2] % Byte
                    ELSE w[i \div 2] \div Byte]

\* The rollout entry of a feature at a percentage: the feature's hash with
\* its low byte replaced by the percentage.
Entry(feature, pct) ==
    LET h == highOf(hash(feature))
    IN  WordBytes(<<h[1] + pct, h[2], h[3], h[4]>>)

\* A table of nb buckets holding the fingerprint of one key in the first
\* slot of its primary bucket, or of its alternate bucket.
Placed(nb, key, alternate) ==
    LET m  == [bucketIndexMask |-> nb - 1]
        fi == fingerprintAndIndex(m, key)
        at == IF alternate THEN altIndex(m, fi.fingerprint, fi.index) ELSE fi.index
    IN  [i \in 1..(nb * bytesPerBucket) |->
            IF i = at * bytesPerBucket + 1 THEN fi.fingerprint % Byte
            ELSE IF i = at * bytesPerBucket + 2 THEN fi.fingerprint \div Byte
            ELSE 0]

\* "k:0" and "0".
PlacedKeys == {<<107, Colon, 48>>, <<48>>}
\* "k" and "0k".
RolloutFeatures == {<<107>>, <<48, 107>>}
RolloutPcts == {0, 50, 100}

FilterInputs ==
    {NilBytes}
    \cup {Bytes(Zeros(n)) : n \in 0..MaxFilterLen}
    \cup {Bytes(Placed(nb, k, a)) :
            nb \in {n \in {1, 2, 4} : n * bytesPerBucket <= MaxFilterLen},
            k \in PlacedKeys, a \in BOOLEAN}

RolloutBodies ==
    {<<>>}
    \cup {Entry(f, p) : f \in RolloutFeatures, p \in RolloutPcts}
    \cup {Entry(<<107>>, 100) \o Entry(<<107>>, 0),
          Entry(<<107>>, 0) \o Entry(<<48, 107>>, 100)}

\* Up to MaxTrailing bytes of a further entry that was cut short.
RolloutInputs ==
    {NilBytes}
    \cup {Bytes(body \o SubSeq(Entry(<<48>>, 100), 1, t)) :
            body \in RolloutBodies, t \in 0..MaxTrailing}

\* The fingerprints of the keys, and the least and the greatest fingerprint.
Fingerprints ==
    {fingerprintAndIndex(ZeroFilter, k).fingerprint : k \in Keys}
    \cup {1, maxFingerprint - 1}

---------------------------------------------------------------------------
(* The decode-and-query core as a state machine.                           *)

\* The response {} : both fields absent.
EmptyResponse == [Filter |-> NilBytes, Rollout |-> NilBytes]

NoObs ==
    [op |-> "none", key |-> <<>>, result |-> FALSE, byRollout |-> FALSE,
     byFilter |-> FALSE, pct |-> 0, fingerprint |-> 0, index |-> 0,
     alt |-> 0, back |-> 0, panic |-> FALSE]

\* The arguments run is called with, and what Old and New may return; the
\* zero value of either type is "".
ArgsValues == {"a", "b"}
RetValues  == {"x", "y"}

\* No goroutine; and a goroutine of run by its position and the value New
\* gave it.
NoGoroutine == [pc |-> "none", val |-> ""]

\* No call of results yet.
NoReport ==
    [made |-> FALSE, args |-> "", old |-> "", new |-> "", olddur |-> 0,
     newdur |-> 0, early |-> FALSE]

\* A RefactorArgs as the caller builds it: result is nil, no call of run.
RefactorIdle ==
    /\ refactor = [nil |-> TRUE, run |-> 0, args |-> "", old |-> "", new |-> "",
                   olddur |-> 0, newdur |-> 0]
    /\ caller = [pc |-> "idle", run |-> 0, args |-> "", oldRet |-> "",
                 got |-> "", ret |-> ""]
    /\ gor = [n \in 1..MaxRuns |-> NoGoroutine]
    /\ report = NoReport

ClientIdle ==
    /\ c = [nil |-> TRUE, filter |-> ZeroFilter, by |-> "none"]
    /\ poller = FALSE
    /\ decoded = FALSE
    /\ chk = [pc |-> "idle", key |-> <<>>, ptr |-> ZeroFilter, by |-> "none",
              view |-> ZeroFilter, result |-> FALSE, failsafe |-> FALSE]
    /\ panicked = FALSE
    /\ fetch = [by |-> "none", err |-> "none", round |-> 0]

\* from has not been called yet.
NotDecoded == [err |-> "none", filter |-> ZeroFilter, nil |-> TRUE]

Init ==
    /\ fr = EmptyResponse
    /\ dec = NotDecoded
    /\ obs = NoObs
    /\ ClientIdle
    /\ RefactorIdle

\* f, err := from(fr)
Decode ==
    /\ dec = NotDecoded
    /\ \E fb \in FilterInputs, rb \in RolloutInputs :
        /\ fr' = [Filter |-> fb, Rollout |-> rb]
        /\ dec' = from(fr')
        /\ obs' = NoObs
        /\ UNCHANGED <<clientVars, refVars>>

\* f.lookup(key) on the filter from returned.
Lookup ==
    /\ dec.err = "ok"
    /\ obs = NoObs
    /\ \E k \in Keys :
        /\ obs' = [NoObs EXCEPT
                    !.op = "lookup",
                    !.key = k,
                    !.panic = lookupPanics(dec.filter, k),
                    !.result = ~lookupPanics(dec.filter, k)
                               /\ lookup(dec.filter, k),
                    !.byRollout = lookupRollout(dec.filter, k),
                    !.byFilter = ~lookupFilterPanics(dec.filter, k)
                                 /\ lookupFilter(dec.filter, k)]
        /\ UNCHANGED <<fr, dec>>
        /\ UNCHANGED <<clientVars, refVars>>

\* The rollout-only response that sets a key's feature to a percentage.
RolloutResponse(k, p) ==
    [Filter |-> NilBytes, Rollout |-> Bytes(Entry(featureKey(k), p))]

\* Test_filter_RolloutPercentage: decode a rollout-only snapshot and ask
\* whether the rollout enables the key.
RolloutPercentage ==
    /\ dec = NotDecoded
    /\ \E k \in Keys, p \in 0..100 :
        /\ fr' = RolloutResponse(k, p)
        /\ dec' = from(fr')
        /\ obs' = [NoObs EXCEPT !.op = "rollout",
                                !.key = k,
                                !.pct = p,
                                !.result = lookup(dec'.filter, k),
                                !.byRollout = lookupRollout(dec'.filter, k),
                                !.byFilter = lookupFilter(dec'.filter, k)]
        /\ UNCHANGED <<clientVars, refVars>>

\* The alternate index of a fingerprint at an index of the decoded table,
\* and the alternate of that.
AltIndex ==
    /\ dec = NotDecoded
    /\ \E fp \in Fingerprints, nb \in {1, 2, 4} :
        \E i \in 0..(nb - 1) :
            /\ nb * bytesPerBucket <= MaxFilterLen
            /\ fr' = [Filter |-> Bytes(Zeros(nb * bytesPerBucket)), Rollout |-> NilBytes]
            /\ dec' = from(fr')
            /\ obs' = [NoObs EXCEPT
                        !.op = "altIndex",
                        !.fingerprint = fp,
                        !.index = i,
                        !.alt = altIndex(dec'.filter, fp, i),
                        !.back = altIndex(dec'.filter, fp,
                                          altIndex(dec'.filter, fp, i))]
            /\ UNCHANGED <<clientVars, refVars>>

Next == Decode \/ Lookup \/ RolloutPercentage \/ AltIndex

Spec == Init /\ [][Next]_vars

---------------------------------------------------------------------------
(* The client: Init, fetchFilter, pollFilter and Check.                    *)

\* "0k", "k:0", "k" and "0".
ClientKeys == {<<48, 107>>, <<107, Colon, 48>>, <<107>>, <<48>>}

\* What the backend may answer: {}, a rollout-only snapshot enabling "k",
\* a two-bucket table holding "k:0" with "k" at 100 percent, that table
\* with no rollout entry, and a table of a malformed length.
ClientResponses ==
    {EmptyResponse,
     [Filter |-> NilBytes, Rollout |-> Bytes(Entry(<<107>>, 100))],
     [Filter |-> Bytes(Placed(2, <<107, Colon, 48>>, FALSE)),
      Rollout |-> Bytes(Entry(<<107>>, 100))],
     [Filter |-> Bytes(Placed(2, <<107, Colon, 48>>, FALSE)), Rollout |-> NilBytes],
     [Filter |-> Bytes(Zeros(3)), Rollout |-> NilBytes]}

\* How a fetch may end: the GET fails, the body is not JSON, or a response
\* is decoded from it.
FetchOutcomes ==
    {[kind |-> "transport", fr |-> EmptyResponse],
     [kind |-> "json", fr |-> EmptyResponse]}
    \cup {[kind |-> "response", fr |-> r] : r \in ClientResponses}

\* fetchFilter up to its assignment of c.filter: the error it returns, or
\* the filter it is about to install.
fetchFilter(o) ==
    IF o.kind # "response"
    THEN [err |-> o.kind, filter |-> ZeroFilter, nil |-> TRUE]
    ELSE from(o.fr)

\* Init (under once.Do): c = &client{...}; the first fetch; on its failure
\* c.filter = &filter{}; go c.pollFilter().
InitOnce ==
    /\ ~panicked
    /\ c.nil
    /\ \E o \in FetchOutcomes :
        /\ c' = [nil |-> FALSE,
                 filter |-> IF fetchFilter(o).err = "ok"
                            THEN fetchFilter(o).filter ELSE ZeroFilter,
                 by |-> "init"]
        /\ decoded' = (fetchFilter(o).err = "ok")
        /\ fetch' = [by |-> "init", err |-> fetchFilter(o).err, round |-> 0]
    /\ poller' = TRUE
    /\ UNCHANGED <<chk, panicked>>
    /\ UNCHANGED <<coreVars, refVars>>

\* A variant of pollFilter that stores what fetchFilter built whether or
\* not it failed.
pollFilter_storesAlways ==
    /\ ~panicked
    /\ poller
    /\ \E o \in FetchOutcomes :
        /\ c' = [nil |-> FALSE, filter |-> fetchFilter(o).filter, by |-> "poll"]
        /\ decoded' = (decoded \/ fetchFilter(o).err = "ok")
        /\ fetch' = [by |-> "poll", err |-> fetchFilter(o).err,
                     round |-> 1 - fetch.round]
    /\ UNCHANGED <<poller, chk, panicked>>
    /\ UNCHANGED <<coreVars, refVars>>

\* One round of pollFilter's loop: sleep, then fetchFilter; an error is
\* logged and c.filter is left alone.  The rounds of the loop are told
\* apart by their parity.
pollFilter ==
    /\ ~panicked
    /\ poller
    /\ \E o \in FetchOutcomes :
        /\ IF fetchFilter(o).err = "ok"
           THEN /\ c' = [nil |-> FALSE, filter |-> fetchFilter(o).filter, by |-> "poll"]
                /\ decoded' = TRUE
           ELSE UNCHANGED <<c, decoded>>
        /\ fetch' = [by |-> "poll", err |-> fetchFilter(o).err,
                     round |-> 1 - fetch.round]
    /\ UNCHANGED <<poller, chk, panicked>>
    /\ UNCHANGED <<coreVars, refVars>>

\* Check called before Init: c is nil and c.filter dereferences it.
CheckNil ==
    /\ ~panicked
    /\ c.nil
    /\ chk.pc # "loaded"
    /\ panicked' = TRUE
    /\ UNCHANGED <<c, poller, decoded, chk, fetch>>
    /\ UNCHANGED <<coreVars, refVars>>

\* Check, first half: the read of c.filter.
CheckLoad ==
    /\ ~panicked
    /\ ~c.nil
    /\ chk.pc # "loaded"
    /\ \E k \in ClientKeys :
        chk' = [pc |-> "loaded", key |-> k, ptr |-> c.filter, by |-> c.by,
                view |-> c.filter, result |-> FALSE, failsafe |-> ~decoded]
    /\ UNCHANGED <<c, poller, decoded, panicked, fetch>>
    /\ UNCHANGED <<coreVars, refVars>>

\* What a reader may find in the fields of a filter it reached through
\* c.filter.  Init stores c.filter before it starts the poller and before it
\* returns, so its filter is seen whole.  pollFilter's goroutine stores
\* c.filter with no synchronisation: beside the written value, each field may
\* still read as the zero value of the allocation, and the bucket slice as a
\* header with its pointer set and its length still 0.
Views(f, by) ==
    IF by # "poll" THEN {f}
    ELSE {[f EXCEPT !.bucketsNil = b.nil, !.buckets = b.s,
                    !.bucketIndexMask = m,
                    !.rolloutsNil = r.nil, !.rollouts = r.m] :
            b \in {[nil |-> f.bucketsNil, s |-> f.buckets],
                   [nil |-> TRUE, s |-> <<>>],
                   [nil |-> f.bucketsNil, s |-> <<>>]},
            m \in {f.bucketIndexMask, 0},
            r \in {[nil |-> f.rolloutsNil, m |-> f.rollouts],
                   [nil |-> TRUE, m |-> {}]}}

\* Check, second half: lookup on the filter that was read.
CheckLookup ==
    /\ ~panicked
    /\ chk.pc = "loaded"
    /\ \E v \in Views(chk.ptr, chk.by) :
        IF lookupPanics(v, chk.key)
        THEN /\ panicked' = TRUE
             /\ chk' = [chk EXCEPT !.pc = "done", !.view = v]
        ELSE /\ chk' = [chk EXCEPT !.pc = "done", !.view = v,
                                   !.result = lookup(v, chk.key)]
             /\ UNCHANGED panicked
    /\ UNCHANGED <<c, poller, decoded, fetch>>
    /\ UNCHANGED <<coreVars, refVars>>

NextClient == InitOnce \/ pollFilter \/ CheckNil \/ CheckLoad \/ CheckLookup

SpecClient == Init /\ [][NextClient]_vars

\* pollFilter runs in a goroutine of its own that loops for ever (sleep,
\* fetch, log): the scheduler gives it its turn again and again for as
\* long as the process lives.
SpecClientFair == SpecClient /\ WF_vars(pollFilter)

---------------------------------------------------------------------------
(* Refactor: run and results on one RefactorArgs.                          *)

\* run, up to the go statement: start := time.Now(); r.result =
\* &result{args: args}; ch := make(chan Ret); go func() {...}().
\* Durations are kept as the number of the call that measured them (0 is
\* the zero value of a field nobody has written).
RunBegin ==
    /\ caller.pc \in {"idle", "returned"}
    /\ caller.run < MaxRuns
    /\ \E a \in ArgsValues :
        /\ refactor' = [nil |-> FALSE, run |-> caller.run + 1, args |-> a,
                        old |-> "", new |-> "", olddur |-> 0, newdur |-> 0]
        /\ caller' = [pc |-> "old", run |-> caller.run + 1, args |-> a,
                      oldRet |-> "", got |-> "", ret |-> ""]
    /\ gor' = [gor EXCEPT ![caller.run + 1] = [pc |-> "new", val |-> ""]]
    /\ report' = NoReport
    /\ UNCHANGED <<coreVars, clientVars>>

\* r.result.old = r.Old(args), on the caller's thread.
CallOld ==
    /\ caller.pc = "old"
    /\ \E v \in RetValues :
        /\ caller' = [caller EXCEPT !.pc = "olddur", !.oldRet = v]
        /\ refactor' = [refactor EXCEPT !.old = v]
    /\ UNCHANGED <<gor, report>>
    /\ UNCHANGED <<coreVars, clientVars>>

\* r.result.olddur = time.Since(start)
WriteOldDur ==
    /\ caller.pc = "olddur"
    /\ caller' = [caller EXCEPT !.pc = "recv"]
    /\ refactor' = [refactor EXCEPT !.olddur = caller.run]
    /\ UNCHANGED <<gor, report>>
    /\ UNCHANGED <<coreVars, clientVars>>

\* The goroutine evaluates r.New(args), the operand of its send.
CallNew ==
    /\ \E n \in 1..MaxRuns, v \in RetValues :
        /\ gor[n].pc = "new"
        /\ gor' = [gor EXCEPT ![n] = [pc |-> "send", val |-> v]]
    /\ UNCHANGED <<refactor, caller, report>>
    /\ UNCHANGED <<coreVars, clientVars>>

\* ch is unbuffered: the goroutine's send (ch <- ...) and the caller's
\* receive (<-ch) complete together.
Receive ==
    /\ caller.pc = "recv"
    /\ gor[caller.run].pc = "send"
    /\ caller' = [caller EXCEPT !.pc = "setnew", !.got = gor[caller.run].val]
    /\ gor' = [gor EXCEPT ![caller.run].pc = "dur"]
    /\ UNCHANGED <<refactor, report>>
    /\ UNCHANGED <<coreVars, clientVars>>

\* r.result.new = (the value received)
WriteNew ==
    /\ caller.pc = "setnew"
    /\ caller' = [caller EXCEPT !.pc = "return"]
    /\ refactor' = [refactor EXCEPT !.new = caller.got]
    /\ UNCHANGED <<gor, report>>
    /\ UNCHANGED <<coreVars, clientVars>>

\* A variant of Return that hands back the new result.
Return_newResult ==
    /\ caller.pc = "return"
    /\ caller' = [caller EXCEPT !.pc = "returned", !.ret = refactor.new]
    /\ UNCHANGED <<refactor, gor, report>>
    /\ UNCHANGED <<coreVars, clientVars>>

\* return r.result.old
Return ==
    /\ caller.pc = "return"
    /\ caller' = [caller EXCEPT !.pc = "returned", !.ret = refactor.old]
    /\ UNCHANGED <<refactor, gor, report>>
    /\ UNCHANGED <<coreVars, clientVars>>

\* The goroutine's last statement, after its send: r.result.newdur =
\* time.Since(start).  It reads r.result when it gets there: if run has
\* been called again meanwhile, the record is the later call's, or (the
\* pointer having been read before that call replaced it) the write goes
\* to the record nothing refers to any more.
WriteNewDur ==
    /\ \E n \in 1..MaxRuns :
        /\ gor[n].pc = "dur"
        /\ gor' = [gor EXCEPT ![n].pc = "done"]
        /\ \/ refactor' = [refactor EXCEPT !.newdur = n]
           \/ refactor.run # n /\ UNCHANGED refactor
    /\ UNCHANGED <<caller, report>>
    /\ UNCHANGED <<coreVars, clientVars>>

\* results, called by the caller after run has returned: it reads args,
\* old, new, olddur and newdur of r.result.  early: the goroutine of the
\* call has not written newdur yet.
results ==
    /\ caller.pc = "returned"
    /\ ~report.made
    /\ report' = [made |-> TRUE, args |-> refactor.args, old |-> refactor.old,
                  new |-> refactor.new, olddur |-> refactor.olddur,
                  newdur |-> refactor.newdur,
                  early |-> gor[caller.run].pc # "done"]
    /\ UNCHANGED <<refactor, caller, gor>>
    /\ UNCHANGED <<coreVars, clientVars>>

NextRefactor ==
    \/ RunBegin \/ CallOld \/ WriteOldDur \/ CallNew \/ Receive
    \/ WriteNew \/ Return \/ WriteNewDur \/ results

SpecRefactor == Init /\ [][NextRefactor]_vars

---------------------------------------------------------------------------
(* Properties.                                                             *)

\* The zero-value / fail-safe filter: no bucket table, and a rollout table
\* that is nil or empty.
IsZeroValue(f) == f.bucketsNil /\ f.rollouts = {}

\* A query of the decoded filter has been made.
Queried == obs.op \in {"lookup", "rollout"}

\* x is 2^e for some e.
IsPowerOfTwo(x) == \E e \in 0..30 : 2 ^ e = x

\* The rollout table has an entry for the key's feature.
HasRollout(f, key) == \E p \in f.rollouts : p[1] = highOf(hash(featureKey(key)))

\* C1: lookup on the zero-value filter returns false for every key,
\* whatever the key's hash is.
C1_ZeroFilterLookupFalse ==
    (Queried /\ dec.err = "ok" /\ IsZeroValue(dec.filter)) => obs.result = FALSE

\* C2: while no filter has been decoded successfully (Init's first fetch
\* failed and the fail-safe filter is installed), a Check returns false and
\* does not panic.
C2_FailClosed ==
    (chk.pc = "done" /\ chk.failsafe) => (chk.result = FALSE /\ ~panicked)

\* C3: on a filter that is not the zero value, lookup is true exactly when
\* the rollout enables the key or the membership filter contains it; a
\* filter without a bucket table answers from its rollout table alone.
C3_LookupIsRolloutOrMember ==
    (Queried /\ dec.err = "ok" /\ ~IsZeroValue(dec.filter)) =>
        /\ obs.result = (obs.byRollout \/ obs.byFilter)
        /\ dec.filter.bucketsNil => (obs.result = obs.byRollout)
        /\ (~obs.byRollout /\ ~obs.byFilter) => obs.result = FALSE

\* A rollout-only filter has answered true from its rollout table.
C3_Witness ==
    /\ obs.op = "lookup"
    /\ dec.err = "ok"
    /\ dec.filter.bucketsNil
    /\ ~IsZeroValue(dec.filter)
    /\ obs.byRollout
    /\ obs.result = TRUE

\* C4: a key without a delimiter (the empty key included) whose feature has
\* no rollout entry and whose fingerprint is in neither candidate bucket
\* looks up false, whatever its hash is.
C4_MalformedKeyDefaultFalse ==
    (/\ obs.op = "lookup"
     /\ dec.err = "ok"
     /\ Index(obs.key, Colon) < 0
     /\ ~HasRollout(dec.filter, obs.key)
     /\ ~obs.byFilter) => obs.result = FALSE

\* C5: a key that the rollout enables at a percentage is enabled at every
\* greater percentage up to 100 (the tables differ in that percentage only).
C5_RolloutMonotone ==
    (obs.op = "rollout" /\ obs.byRollout) =>
        \A p2 \in obs.pct..100 :
            lookupRollout(from(RolloutResponse(obs.key, p2)).filter, obs.key)

\* A key is enabled below 100 percent by the comparison with its bucket value.
C5_Witness ==
    /\ obs.op = "rollout"
    /\ obs.byRollout
    /\ obs.pct \in 1..99
    /\ Mod64(hash(obs.key), 100) = obs.pct

\* C6: from rejects, with no filter, rollout bytes whose length is not a
\* multiple of 8 (the bucket table being absent or accepted).
C6_RejectsRolloutLength ==
    (/\ dec.err # "none"
     /\ ~fr.Rollout.nil
     /\ Len(fr.Rollout.b) % 8 # 0
     /\ (fr.Filter.nil \/ fromFilterErr(fr.Filter.b) = "ok"))
        => (dec.err = "MalformedRolloutLength" /\ dec.nil)

\* C7 as stated: filter bytes that are absent or of length zero decode
\* without error into a filter with no bucket table, which contains no key.
C7_EmptyFilterBytesAccepted ==
    (dec.err # "none" /\ (fr.Filter.nil \/ Len(fr.Filter.b) = 0)) =>
        /\ dec.err = "ok"
        /\ dec.filter.bucketsNil
        /\ Queried => ~obs.byFilter

\* C7 as amended: absent (nil) filter bytes decode without error into a
\* filter with no bucket table, which contains no key; filter bytes that are
\* present and empty are refused as too small, with no filter.
C7_AbsentFilterBytes ==
    /\ (dec.err # "none" /\ fr.Filter.nil) =>
            /\ dec.err = "ok"
            /\ ~dec.nil
            /\ dec.filter.bucketsNil
            /\ Queried => ~obs.byFilter
    /\ (dec.err # "none" /\ ~fr.Filter.nil /\ Len(fr.Filter.b) = 0) =>
            /\ dec.err = "TooSmall"
            /\ dec.nil

\* A key was looked up in a filter decoded from absent filter bytes and a
\* present rollout table.
C7_Witness ==
    /\ obs.op = "lookup"
    /\ fr.Filter.nil
    /\ ~fr.Rollout.nil
    /\ dec.err = "ok"
    /\ dec.filter.rollouts # {}

\* C8: for present filter bytes of length n the first failing check decides:
\* n not divisible by 4, then n/8 < 1, then n/8 not a power of two; otherwise
\* from succeeds with exactly n/8 buckets, a power of two and at least one.
C8_FilterValidationOrder ==
    (dec.err # "none" /\ ~fr.Filter.nil) =>
        LET n == Len(fr.Filter.b)
        IN  IF n % 4 # 0 THEN dec.err = "MalformedLength" /\ dec.nil
            ELSE IF n \div 8 < 1 THEN dec.err = "TooSmall" /\ dec.nil
            ELSE IF ~IsPowerOfTwo(n \div 8) THEN dec.err = "NotPowerOfTwo" /\ dec.nil
            ELSE /\ dec.err = "ok"
                 /\ ~dec.nil
                 /\ ~dec.filter.bucketsNil
                 /\ Len(dec.filter.buckets) = n \div 8
                 /\ Len(dec.filter.buckets) >= 1
                 /\ IsPowerOfTwo(Len(dec.filter.buckets))

\* Filter bytes that pass the length and size checks are refused for a
\* bucket count of 3.
C8_Witness ==
    /\ ~fr.Filter.nil
    /\ Len(fr.Filter.b) \div 8 = 3
    /\ dec.err = "NotPowerOfTwo"

\* C9: a Check evaluates its whole lookup against the one filter whose
\* reference it read from c.filter: the fields it sees are that filter's.
C9_AtomicReplacement ==
    chk.pc = "done" => chk.view = chk.ptr

\* C10: under a fixed index mask, the alternate index of the alternate index
\* of a bucket index within the table is that index again.
C10_AltIndexSymmetry ==
    obs.op = "altIndex" => obs.back = obs.index

\* In a table of four buckets a fingerprint's alternate bucket is another
\* bucket than its primary one.
C10_Witness ==
    /\ obs.op = "altIndex"
    /\ dec.filter.bucketIndexMask = 3
    /\ obs.alt # obs.index
    /\ obs.back = obs.index

\* The fingerprints held by the bucket at a 0-based index of the table.
SlotsAt(f, index) == {f.buckets[index + 1][j] : j \in 1..bucketSize}

\* C11: on a filter with a bucket table, the membership query answers true
\* exactly when the key's fingerprint (top 16 bits of its hash, modulo
\* 65534, plus 1) is in one of the four slots of the bucket at the primary
\* index (hash modulo the number of buckets) or of the bucket at the
\* alternate index (primary index xor the hash of the fingerprint's two
\* little-endian bytes, modulo the number of buckets); no other bucket
\* decides the answer.
C11_MembershipTwoBuckets ==
    (obs.op = "lookup" /\ dec.err = "ok" /\ ~dec.filter.bucketsNil) =>
        LET f  == dec.filter
            nb == Len(f.buckets)
            h  == hash(obs.key)
            fp == (h[4] % 65534) + 1
            primary == h[1] % nb
            alternate ==
                BitXor(primary, hash(<<fp % 256, fp \div 256>>)[1]) % nb
        IN  obs.byFilter <=>
                (fp \in SlotsAt(f, primary) \/ fp \in SlotsAt(f, alternate))

\* A key found through its alternate bucket alone.
C11_Witness ==
    /\ obs.op = "lookup" /\ dec.err = "ok" /\ ~dec.filter.bucketsNil
    /\ obs.byFilter
    /\ LET fi == fingerprintAndIndex(dec.filter, obs.key)
       IN  /\ altIndex(dec.filter, fi.fingerprint, fi.index) # fi.index
           /\ fi.fingerprint \notin SlotsAt(dec.filter, fi.index)

\* The positions (from 1) of the delimiter in a key.
ColonsOf(key) == {i \in 1..Len(key) : key[i] = 58}

\* The part of a key before its first delimiter, when the key has one that
\* is not its first byte; else the key.
FeatureOf(key) ==
    IF ColonsOf(key) = {} \/ 1 \in ColonsOf(key) THEN key
    ELSE LET first == CHOOSE i \in ColonsOf(key) : \A j \in ColonsOf(key) : i <= j
         IN  [i \in 1..(first - 1) |-> key[i]]

\* The rollout table of the decoded filter maps a feature key to 100.
FullyRolledOut(feature) ==
    LET h == hash(feature)
    IN  <<<<h[1] - (h[1] % 256), h[2], h[3], h[4]>>, 100>> \in dec.filter.rollouts

\* C12: whatever the bucket table, when the rollout table maps the hash
\* prefix of a key's feature key to 100, lookup of the key is true, and so
\* is lookup of every other key with the same feature key: the answer
\* does not depend on what follows the first delimiter.
C12_FullRolloutEnables ==
    (obs.op \in {"lookup", "rollout"} /\ dec.err = "ok"
        /\ FullyRolledOut(FeatureOf(obs.key))) =>
        /\ obs.result = TRUE
        /\ \A k \in Keys :
            FeatureOf(k) = FeatureOf(obs.key) => lookup(dec.filter, k)

\* A key with a delimiter whose feature is fully rolled out and whose
\* fingerprint is in neither bucket, enabled on a non-empty bucket table.
C12_Witness ==
    /\ obs.op = "lookup" /\ dec.err = "ok"
    /\ FullyRolledOut(FeatureOf(obs.key))
    /\ FeatureOf(obs.key) # obs.key
    /\ ~dec.filter.bucketsNil /\ dec.filter.count > 0
    /\ ~obs.byFilter
    /\ obs.result

\* A key that begins with the delimiter, enabled under its whole self.
C12_WitnessLeadingDelimiter ==
    /\ obs.op = "rollout" /\ dec.err = "ok"
    /\ Len(obs.key) > 1 /\ obs.key[1] = 58
    /\ FullyRolledOut(obs.key)
    /\ obs.result

\* C16: every filter that from returns with a bucket table has
\* bucketIndexMask = number of buckets - 1, and for every key the primary
\* index and the alternate index are in [0, number of buckets), as is the
\* alternate of every fingerprint at every index of the table, so that no
\* lookup panics on an index out of range; a filter without a bucket
\* table is never indexed and its membership query answers false.
C16_IndexSafety ==
    (dec.err = "ok" /\ obs.op \in {"lookup", "altIndex"}) =>
        LET f  == dec.filter
            nb == Len(f.buckets)
        IN  /\ ~obs.panic
            /\ f.bucketsNil => (nb = 0 /\ ~obs.byFilter)
            /\ ~f.bucketsNil =>
                /\ nb >= 1
                /\ f.bucketIndexMask = nb - 1
                /\ obs.op = "altIndex" => obs.alt \in 0..(nb - 1)
                /\ obs.op = "lookup" =>
                    LET fi == fingerprintAndIndex(f, obs.key)
                    IN  /\ fi.index \in 0..(nb - 1)
                        /\ altIndex(f, fi.fingerprint, fi.index) \in 0..(nb - 1)

\* A key that the rollout table does not enable, probed in two distinct
\* buckets of a table of more than one bucket, the second being the last.
C16_Witness ==
    /\ dec.err = "ok" /\ obs.op = "lookup" /\ ~obs.byRollout
    /\ ~dec.filter.bucketsNil
    /\ LET f  == dec.filter
           fi == fingerprintAndIndex(f, obs.key)
       IN  /\ altIndex(f, fi.fingerprint, fi.index) # fi.index
           /\ altIndex(f, fi.fingerprint, fi.index) = Len(f.buckets) - 1

\* C14: a call of fetchFilter that fails (transport error, JSON decode
\* error, or an error of from) does not write the client's filter
\* reference: after a failed poll the reference is what it was, and after
\* a failed first fetch it is the fail-safe zero-value filter; whenever the
\* reference does change, a fetch has just succeeded, so only a filter
\* that from built whole is ever installed.
C14_FailedRefreshKeepsFilter ==
    [][/\ (fetch' # fetch /\ fetch'.err # "ok") =>
            IF fetch'.by = "poll" THEN c' = c
            ELSE (c.nil /\ c'.filter = ZeroFilter)
       /\ (c' # c) =>
            \/ fetch'.by = "init" /\ fetch'.err # "ok" /\ c'.filter = ZeroFilter
            \/ /\ fetch' # fetch /\ fetch'.err = "ok"
               /\ \E r \in ClientResponses :
                    from(r).err = "ok" /\ c'.filter = from(r).filter]_vars

\* A poll has failed in from while a filter with a bucket table and a
\* rollout table is installed, and a Check has been answered true by it.
C14_Witness ==
    /\ fetch.by = "poll" /\ fetch.err = "MalformedLength"
    /\ ~c.nil /\ ~c.filter.bucketsNil /\ c.filter.rollouts # {}
    /\ chk.pc = "done" /\ chk.ptr = c.filter /\ chk.result /\ ~panicked

\* C15, the retrying half: for as long as the process lives, every round
\* of the poller, failed or not, is followed by another fetch.
C15_PollerRetries ==
    \A b \in {0, 1} :
        (poller /\ fetch.round = b) ~> (fetch.round # b \/ panicked)

\* C15, the installing half: a fetch that succeeds makes the filter it
\* decoded the current filter.
C15_SuccessInstalls ==
    [][(fetch' # fetch /\ fetch'.err = "ok") =>
        \E o \in FetchOutcomes :
            fetchFilter(o).err = "ok" /\ c'.filter = fetchFilter(o).filter]_vars

\* C15: once the poller has installed a freshly decoded filter, a Check
\* that reads it is answered from it: the Check does not bring the
\* process (and with it the poller) down, and its result is what lookup
\* gives on the installed filter.
C15_ChecksAnsweredFromFreshFilter ==
    (chk.pc = "done" /\ chk.by = "poll") =>
        (~panicked /\ chk.result = lookup(chk.ptr, chk.key))

\* C13: when run has returned, its return value is the value Old
\* produced for the arguments, whatever New returned and in whatever
\* order the two calls were made; New has completed too (its goroutine
\* is past its send); and the result record holds the arguments, Old's
\* result and New's result, which is what a call of results then reads.
C13_RunReturnsOld ==
    caller.pc = "returned" =>
        /\ caller.ret = caller.oldRet
        /\ caller.oldRet \in RetValues
        /\ gor[caller.run].pc \in {"dur", "done"}
        /\ ~refactor.nil /\ refactor.run = caller.run
        /\ refactor.args = caller.args
        /\ refactor.old = caller.oldRet
        /\ refactor.new = gor[caller.run].val
        /\ report.made =>
            /\ report.args = caller.args
            /\ report.old = caller.oldRet
            /\ report.new = gor[caller.run].val

\* run has returned Old's value where New gave another one, and results
\* has reported the arguments and both values.
C13_Witness ==
    /\ caller.pc = "returned" /\ caller.run = 1
    /\ caller.ret = "x" /\ gor[1].val = "y"
    /\ report.made /\ report.old = "x" /\ report.new = "y"
    /\ report.args = "a"

\* C17: once run has returned, every write to the result record has been
\* made: olddur and newdur are written, no goroutine of this or of an
\* earlier call still has its write of newdur ahead of it, and a call of
\* results never reads newdur before the goroutine has written it.
C17_WritesDoneAtReturn ==
    caller.pc = "returned" =>
        /\ refactor.olddur # 0
        /\ refactor.newdur # 0
        /\ \A n \in 1..MaxRuns : gor[n].pc \in {"none", "done"}
        /\ ~report.early

====
